---- MODULE Spec2Model ----
(***************************************************************************)
(* Model of the command-line inventory manager in src/main.py: the Item    *)
(* classes (Electronic, Food, Apparel), the Inventory container with its   *)
(* JSON backing file, and the interactive menu loop of main().             *)
(*                                                                         *)
(* The Python dict `Inventory.items` is an insertion-ordered mapping; it   *)
(* is modelled as a sequence of items without repeated ids (the key of an  *)
(* entry is always the id of the item stored under it, lines 121 and 128). *)
(* An item is a record whose field `cls` is its Python class; a JSON       *)
(* object of the backing file is a record whose field `type` is the tag    *)
(* written by to_dict.  The two shapes are different on purpose: saving    *)
(* and loading are conversions between them.                               *)
(***************************************************************************)
EXTENDS Integers, Sequences, FiniteSets, TLC

VARIABLES
    items,   \* Inventory.items, in dict (insertion) order
    file,    \* the backing file: [state |-> "absent" | "corrupt" | "json", data |-> JSON array]
    pc,      \* "new": no Inventory yet; "ready": Inventory live (main: at the menu prompt);
             \* "failed": an exception escaped the constructor; "done": main left its loop
    call,    \* the last operation and its arguments
    err,     \* the exception the last operation raised ("none" when it returned)
    out      \* what main printed last

vars == <<items, file, pc, call, err, out>>

---------------------------------------------------------------------------
(* Bounds of the model *)

\* quantities are kept in -1 .. MaxQty, amounts range over -1 .. MaxQty + 1
MaxQty == 1
\* datetime.now().date() returns one of the days 1 .. MaxDay
MaxDay == 2

Ids == {"a", "b"}
Quantities == (0 - 1) .. MaxQty
Amounts == (0 - 1) .. (MaxQty + 1)
Days == 1 .. MaxDay

\* Expiry strings as typed at the prompt or found in a file.  The first two
\* are dates in the %Y-%m-%d format; the last one is not a date.
DateStrings == <<"2024-01-01", "2024-01-02">>
ExpiryStrings == {DateStrings[i] : i \in 1..Len(DateStrings)} \cup {"soon"}

---------------------------------------------------------------------------
(* Exceptions, by the text the program attaches to them *)

NoError == "none"
InsufficientStock == "ValueError: Insufficient stock."
DuplicateId == "ValueError: Item ID already exists."
BadDate == "ValueError: time data does not match format '%Y-%m-%d'"
BadNumber == "ValueError: invalid literal"
MissingKey == "KeyError"

---------------------------------------------------------------------------
(* Item classes *)

Electronic(id_, name, price, quantity, brand, warranty) ==
    [cls |-> "Electronic", id |-> id_, name |-> name, price |-> price,
     quantity |-> quantity, brand |-> brand, warranty |-> warranty]

Food(id_, name, price, quantity, expiry) ==
    [cls |-> "Food", id |-> id_, name |-> name, price |-> price,
     quantity |-> quantity, expiry |-> expiry]

Apparel(id_, name, price, quantity, size, fabric) ==
    [cls |-> "Apparel", id |-> id_, name |-> name, price |-> price,
     quantity |-> quantity, size |-> size, fabric |-> fabric]

\* Item.restock: no check on amount
restock(item, amount) ==
    [item |-> [item EXCEPT !.quantity = @ + amount], err |-> NoError]

sell_NoGuard(item, amount) ==
    [item |-> [item EXCEPT !.quantity = @ - amount], err |-> NoError]

\* Item.sell: raises when amount > quantity, otherwise decrements
sell(item, amount) ==
    IF amount > item.quantity
    THEN [item |-> item, err |-> InsufficientStock]
    ELSE [item |-> [item EXCEPT !.quantity = @ - amount], err |-> NoError]

\* datetime.strptime(s, "%Y-%m-%d"): the strings that parse
strptime_ok(s) == \E i \in 1..Len(DateStrings) : DateStrings[i] = s

\* datetime.strptime(s, "%Y-%m-%d").date(), as a day number
strptime(s) == CHOOSE i \in 1..Len(DateStrings) : DateStrings[i] = s

\* Food.is_expired: raises ValueError when the expiry string is not a date
is_expired_raises(item) == ~strptime_ok(item.expiry)

\* Food.is_expired, when it returns: expiry strictly before the current date
is_expired(item, now) == strptime(item.expiry) < now

to_dict_Swapped(item) ==
    IF item.cls = "Electronic" THEN
        [type |-> "Electronic", id |-> item.id, name |-> item.name, price |-> item.price,
         quantity |-> item.quantity, brand |-> item.brand, warranty |-> item.warranty]
    ELSE IF item.cls = "Food" THEN
        [type |-> "Food", id |-> item.id, name |-> item.name, price |-> item.price,
         quantity |-> item.quantity, expiry |-> item.expiry]
    ELSE
        [type |-> "Apparel", id |-> item.id, name |-> item.name, price |-> item.price,
         quantity |-> item.quantity, size |-> item.fabric, fabric |-> item.size]

\* Electronic.to_dict / Food.to_dict / Apparel.to_dict
to_dict(item) ==
    IF item.cls = "Electronic" THEN
        [type |-> "Electronic", id |-> item.id, name |-> item.name, price |-> item.price,
         quantity |-> item.quantity, brand |-> item.brand, warranty |-> item.warranty]
    ELSE IF item.cls = "Food" THEN
        [type |-> "Food", id |-> item.id, name |-> item.name, price |-> item.price,
         quantity |-> item.quantity, expiry |-> item.expiry]
    ELSE
        [type |-> "Apparel", id |-> item.id, name |-> item.name, price |-> item.price,
         quantity |-> item.quantity, size |-> item.size, fabric |-> item.fabric]

---------------------------------------------------------------------------
(* The dict Inventory.items *)

Keys(its) == {its[i].id : i \in 1..Len(its)}

IndexOf(its, k) == CHOOSE i \in 1..Len(its) : its[i].id = k

\* self.items[k]
DictGet(its, k) == its[IndexOf(its, k)]

\* self.items[k] = item: a held key keeps its position, a new key goes last
DictSet(its, k, item) ==
    IF k \in Keys(its) THEN [its EXCEPT ![IndexOf(its, k)] = item] ELSE Append(its, item)

---------------------------------------------------------------------------
(* Persistence *)

AbsentFile == [state |-> "absent", data |-> <<>>]
CorruptFile == [state |-> "corrupt", data |-> <<>>]
JsonFile(data) == [state |-> "json", data |-> data]

\* Inventory.save_to_file: the file becomes the JSON array of every item's to_dict()
save_to_file(its) == JsonFile([i \in 1..Len(its) |-> to_dict(its[i])])

\* the keys the constructor call of each branch of load_from_file reads
FieldsRead(type) ==
    {"id", "name", "price", "quantity"} \cup
        (IF type = "Electronic" THEN {"brand", "warranty"}
         ELSE IF type = "Food" THEN {"expiry"}
         ELSE {"size", "fabric"})

\* the if/elif chain of load_from_file, for a record of a recognised type
\* that has every key the branch reads
from_record(d) ==
    IF d.type = "Electronic" THEN
        Electronic(d.id, d.name, d.price, d.quantity, d.brand, d.warranty)
    ELSE IF d.type = "Food" THEN
        Food(d.id, d.name, d.price, d.quantity, d.expiry)
    ELSE
        Apparel(d.id, d.name, d.price, d.quantity, d.size, d.fabric)

\* the for loop of load_from_file from record i on; d["type"] and the other
\* subscripts raise KeyError on a missing key, which the except clause does
\* not catch: the loop stops with the items inserted so far
RECURSIVE load_loop(_, _, _)
load_loop(data, i, its) ==
    IF i > Len(data) THEN [items |-> its, err |-> NoError]
    ELSE LET d == data[i] IN
        IF "type" \notin DOMAIN d THEN [items |-> its, err |-> MissingKey]
        ELSE IF d.type \in {"Electronic", "Food", "Apparel"} THEN
            IF FieldsRead(d.type) \subseteq DOMAIN d
            THEN load_loop(data, i + 1, DictSet(its, d.id, from_record(d)))
            ELSE [items |-> its, err |-> MissingKey]
        ELSE load_loop(data, i + 1, its)

load_from_file_NoCatch(its, f) ==
    IF f.state = "absent" THEN [items |-> <<>>, err |-> NoError]
    ELSE IF f.state = "corrupt" THEN [items |-> its, err |-> "JSONDecodeError"]
    ELSE load_loop(f.data, 1, its)

\* Inventory.load_from_file on an inventory holding `its`
load_from_file(its, f) ==
    IF f.state \in {"absent", "corrupt"} THEN [items |-> <<>>, err |-> NoError]
    ELSE load_loop(f.data, 1, its)

---------------------------------------------------------------------------
(* Inventory operations, as functions of the state they read *)

Result(its, f, e) == [items |-> its, file |-> f, err |-> e]

add_item_Overwrite(its, f, item) ==
    LET new == DictSet(its, item.id, item) IN Result(new, save_to_file(new), NoError)

\* Inventory.add_item
add_item(its, f, item) ==
    IF item.id \in Keys(its) THEN Result(its, f, DuplicateId)
    ELSE LET new == Append(its, item) IN Result(new, save_to_file(new), NoError)

sell_item_SaveOutsideIf(its, f, id_, qty) ==
    IF id_ \in Keys(its) THEN
        LET r == sell(DictGet(its, id_), qty) IN
        IF r.err # NoError THEN Result(its, f, r.err)
        ELSE LET new == DictSet(its, id_, r.item) IN Result(new, save_to_file(new), NoError)
    ELSE Result(its, save_to_file(its), NoError)

\* Inventory.sell_item
sell_item(its, f, id_, qty) ==
    IF id_ \in Keys(its) THEN
        LET r == sell(DictGet(its, id_), qty) IN
        IF r.err # NoError THEN Result(its, f, r.err)
        ELSE LET new == DictSet(its, id_, r.item) IN Result(new, save_to_file(new), NoError)
    ELSE Result(its, f, NoError)

\* Inventory.remove_expired: the comprehension evaluates is_expired on every
\* Food item; when one raises, self.items is not reassigned and nothing is saved
remove_expired(its, f, now) ==
    IF \E i \in 1..Len(its) : its[i].cls = "Food" /\ is_expired_raises(its[i])
    THEN Result(its, f, BadDate)
    ELSE LET new == SelectSeq(its, LAMBDA v : ~(v.cls = "Food" /\ is_expired(v, now)))
         IN  Result(new, save_to_file(new), NoError)

---------------------------------------------------------------------------
(* Inputs *)

\* the items a caller constructs and hands to add_item, each with a
\* quantity that is not negative
NewItems ==
    {Electronic("a", "tv", 5, q, "acme", 1) : q \in 0..MaxQty} \cup
    {Food("a", "milk", 2, q, DateStrings[1]) : q \in 0..MaxQty} \cup
    {Food("b", "rice", 2, q, e) : q \in 0..MaxQty, e \in ExpiryStrings \ {DateStrings[1]}} \cup
    {Apparel("b", "shirt", 5, q, "M", "wool") : q \in 0..MaxQty}

\* JSON objects that no to_dict wrote: an unrecognised type, no type at all,
\* a recognised type with a key missing
ToyRecord == [type |-> "Toy", id |-> "a", name |-> "ball", price |-> 5, quantity |-> 1]
UntypedRecord == [id |-> "b", name |-> "ball", price |-> 5, quantity |-> 1]
ShortRecord == [type |-> "Apparel", id |-> "b", name |-> "shirt", price |-> 5,
                quantity |-> 1, size |-> "M"]

\* what the backing file can hold when the program starts
InitialFiles ==
    {AbsentFile, CorruptFile, JsonFile(<<>>),
     JsonFile(<<to_dict(Electronic("a", "tv", 5, 1, "acme", 1)), ToyRecord>>),
     JsonFile(<<to_dict(Electronic("a", "tv", 5, 1, "acme", 1)), UntypedRecord>>),
     JsonFile(<<to_dict(Food("a", "milk", 2, 0, DateStrings[1])),
                to_dict(Electronic("a", "tv", 5, 1, "acme", 1))>>),
     JsonFile(<<to_dict(Food("b", "rice", 2, 1, "soon")), ToyRecord>>),
     JsonFile(<<ShortRecord>>)}

\* now: what datetime.now().date() returned during the call (0: the call did not ask)
Call(op, id_, qty, now) == [op |-> op, id |-> id_, qty |-> qty, now |-> now]

---------------------------------------------------------------------------
(* The program driven through the Inventory and Item methods *)

Init ==
    /\ items = <<>>
    /\ file \in InitialFiles
    /\ pc = "new"
    /\ call = Call("none", "", 0, 0)
    /\ err = NoError
    /\ out = ""

\* Inventory.__init__: self.items = {} and then load_from_file(); an
\* exception that load_from_file lets through leaves no Inventory
Construct ==
    /\ pc \in {"new", "ready"}
    /\ LET r == load_from_file(<<>>, file) IN
        /\ items' = r.items
        /\ err' = r.err
        /\ pc' = IF r.err = NoError THEN "ready" ELSE "failed"
    /\ call' = Call("Inventory", "", 0, 0)
    /\ UNCHANGED <<file, out>>

\* load_from_file called again on a live Inventory
Load ==
    /\ pc = "ready"
    /\ LET r == load_from_file(items, file) IN
        /\ items' = r.items
        /\ err' = r.err
    /\ call' = Call("load_from_file", "", 0, 0)
    /\ UNCHANGED <<file, pc, out>>

AddItem(item) ==
    /\ pc = "ready"
    /\ LET r == add_item(items, file, item) IN
        /\ items' = r.items
        /\ file' = r.file
        /\ err' = r.err
    /\ call' = Call("add_item", item.id, 0, 0)
    /\ UNCHANGED <<pc, out>>

SellItem(id_, qty) ==
    /\ pc = "ready"
    /\ LET r == sell_item(items, file, id_, qty) IN
        /\ \A i \in 1..Len(r.items) : r.items[i].quantity \in Quantities
        /\ items' = r.items
        /\ file' = r.file
        /\ err' = r.err
    /\ call' = Call("sell_item", id_, qty, 0)
    /\ UNCHANGED <<pc, out>>

RemoveExpired(now) ==
    /\ pc = "ready"
    /\ LET r == remove_expired(items, file, now) IN
        /\ items' = r.items
        /\ file' = r.file
        /\ err' = r.err
    /\ call' = Call("remove_expired", "", 0, now)
    /\ UNCHANGED <<pc, out>>

\* inv.items[id_].restock(amount), on a held item
Restock(id_, amount) ==
    /\ pc = "ready"
    /\ id_ \in Keys(items)
    /\ LET r == restock(DictGet(items, id_), amount) IN
        /\ r.item.quantity \in Quantities
        /\ items' = DictSet(items, id_, r.item)
        /\ err' = r.err
    /\ call' = Call("restock", id_, amount, 0)
    /\ UNCHANGED <<file, pc, out>>

\* inv.items[id_].sell(amount), on a held item
ItemSell(id_, amount) ==
    /\ pc = "ready"
    /\ id_ \in Keys(items)
    /\ LET r == sell(DictGet(items, id_), amount) IN
        /\ r.item.quantity \in Quantities
        /\ items' = DictSet(items, id_, r.item)
        /\ err' = r.err
    /\ call' = Call("sell", id_, amount, 0)
    /\ UNCHANGED <<file, pc, out>>

\* the backing file is deleted, or left unparsable by an interrupted write
FileLost(f) ==
    /\ f \in {AbsentFile, CorruptFile}
    /\ file # f
    /\ file' = f
    /\ call' = Call("file lost", "", 0, 0)
    /\ err' = NoError
    /\ UNCHANGED <<items, pc, out>>

Next ==
    \/ Construct
    \/ Load
    \/ \E item \in NewItems : AddItem(item)
    \/ \E id_ \in Ids, qty \in Amounts : SellItem(id_, qty)
    \/ \E now \in Days : RemoveExpired(now)
    \/ \E id_ \in Ids, amount \in Amounts : Restock(id_, amount)
    \/ \E id_ \in Ids, amount \in Amounts : ItemSell(id_, amount)
    \/ \E f \in {AbsentFile, CorruptFile} : FileLost(f)

Spec == Init /\ [][Next]_vars

---------------------------------------------------------------------------
(* Properties of the Inventory and Item methods, checked under Spec *)

Saved(its) == JsonFile([i \in 1..Len(its) |-> to_dict(its[i])])

\* C1: in every reachable state every held item has quantity >= 0.
C1_QuantityNonNegative == \A i \in 1..Len(items) : items[i].quantity >= 0

\* C2: add_item with an id that is already a key raises the duplicate-id
\* error and leaves the mapping and the backing file as they were.
C2_DuplicateAddRejected ==
    [][(call'.op = "add_item" /\ call'.id \in Keys(items))
        => (err' = DuplicateId /\ items' = items /\ file' = file)]_vars

\* a duplicate add was rejected while the file differed from the mapping,
\* so a rewrite of the file would have shown
C2_Witness ==
    /\ call.op = "add_item"
    /\ err = DuplicateId
    /\ Len(items) = 2
    /\ file # Saved(items)

\* C3: sell(q) with q > quantity raises the insufficient-stock error and
\* leaves the quantity unchanged; through sell_item on a held id the mapping
\* and the backing file are unchanged too.
C3_OversellRejected ==
    [][(/\ call'.op \in {"sell_item", "sell"}
        /\ call'.id \in Keys(items)
        /\ call'.qty > DictGet(items, call'.id).quantity)
        => (err' = InsufficientStock /\ items' = items /\ file' = file)]_vars

C3_Witness ==
    /\ call.op = "sell_item"
    /\ err = InsufficientStock
    /\ Len(items) = 2
    /\ call.qty > DictGet(items, call.id).quantity
    /\ file # Saved(items)

\* C4: sell_item with an id that is not held raises nothing, changes no
\* item and does not rewrite the backing file, for every quantity.
C4_SellAbsentIsNoOp ==
    [][(call'.op = "sell_item" /\ call'.id \notin Keys(items))
        => (err' = NoError /\ items' = items /\ file' = file)]_vars

C4_Witness ==
    /\ call.op = "sell_item"
    /\ call.id \notin Keys(items)
    /\ err = NoError
    /\ Len(items) = 1
    /\ file # Saved(items)

Recognised(d) == "type" \in DOMAIN d /\ d.type \in {"Electronic", "Food", "Apparel"}

\* C5: constructing over a file that holds a JSON array raises nothing;
\* records with an unrecognised or missing type are skipped and every
\* well-formed record of a recognised type is loaded.
C5_UnknownOrMissingTypeSkipped ==
    (/\ call.op = "Inventory"
     /\ file.state = "json"
     /\ \A i \in 1..Len(file.data) :
            Recognised(file.data[i]) => FieldsRead(file.data[i].type) \subseteq DOMAIN file.data[i])
    => (/\ err = NoError
        /\ pc = "ready"
        /\ Keys(items) = {file.data[i].id : i \in {j \in 1..Len(file.data) : Recognised(file.data[j])}}
        /\ \A k \in 1..Len(items) : \E i \in 1..Len(file.data) :
                Recognised(file.data[i]) /\ items[k] = from_record(file.data[i]))

C7_MutationsPersist ==
    (\/ (call.op = "add_item" /\ err = NoError)
     \/ (call.op = "sell_item" /\ err = NoError /\ call.id \in Keys(items))
     \/ call.op = "remove_expired")
    => file = Saved(items)

\* C8: rebuilding an item from its own record gives the same item, for every
\* variant, and an Inventory constructed over a file that save_to_file just
\* wrote holds the items that were saved, in the same order.
C8_RoundTrip ==
    /\ [](\A i \in 1..Len(items) : from_record(to_dict(items[i])) = items[i])
    /\ [][(call'.op = "Inventory" /\ file = Saved(items))
            => (err' = NoError /\ items' = items)]_vars

\* an Inventory was constructed over a saved file that holds two variants
C8_Witness ==
    /\ call.op = "Inventory"
    /\ err = NoError
    /\ Len(items) = 2
    /\ items[1].cls = "Food"
    /\ items[2].cls = "Apparel"
    /\ file = Saved(items)

\* the expiry is a date and that date is strictly before day `now`
ExpiredOn(v, now) == v.cls = "Food" /\ strptime_ok(v.expiry) /\ strptime(v.expiry) < now

\* C9: remove_expired removes exactly the held Food items whose expiry date
\* is strictly before the current date, keeps every other item unchanged,
\* and rewrites the backing file afterwards.
C9_RemoveExpiredExact ==
    [][call'.op = "remove_expired"
        => (/\ items' = SelectSeq(items, LAMBDA v : ~ExpiredOn(v, call'.now))
            /\ file' = Saved(items'))]_vars

---------------------------------------------------------------------------
(* The interactive session: main() *)

\* the numerals a user types; int() of Numerals[i] is i - 2
Numerals == <<"-1", "0", "1", "2", "3">>

\* int(s) raises ValueError unless s is a numeral
int_ok(s) == \E i \in 1..Len(Numerals) : Numerals[i] = s
int(s) == (CHOOSE i \in 1..Len(Numerals) : Numerals[i] = s) - 2

\* float(s) raises ValueError unless s is a numeral
float_ok(s) == int_ok(s)
float(s) == int(s)

\* str.lower on the texts typed at the prompts
lower(s) ==
    IF s = "Electronic" THEN "electronic"
    ELSE IF s = "FOOD" THEN "food"
    ELSE IF s = "Apparel" THEN "apparel"
    ELSE IF s = "RICE" THEN "rice"
    ELSE s

\* `needle in hay` for the search terms and names used here: none of the
\* terms is a proper substring of a name other than the empty one
contains(hay, needle) == needle = "" \/ needle = hay

\* describe() of an item raises when a Food item's expiry is not a date
describe_raises(v) == v.cls = "Food" /\ is_expired_raises(v)

\* the exceptions of the model; each is a subclass of Exception
Exceptions == {InsufficientStock, DuplicateId, BadDate, BadNumber, MissingKey}

catches_KeyErrorOnly(e) == e = MissingKey

\* `except Exception as e` of the menu loop
catches(e) == e \in Exceptions

ErrorPrinted == "Error:"

\* the answers to the prompts of option 1; a prompt that is not reached is ""
Form(type_, id_, name, price, qty, brand, warranty, expiry, size, fabric) ==
    [type |-> type_, id |-> id_, name |-> name, price |-> price, qty |-> qty,
     brand |-> brand, warranty |-> warranty, expiry |-> expiry, size |-> size,
     fabric |-> fabric]

QtyTexts == {Numerals[i] : i \in {j \in 1..Len(Numerals) : j - 2 \in Quantities}} \cup {"x"}
AmountTexts == {Numerals[i] : i \in {j \in 1..Len(Numerals) : j - 2 \in Amounts}} \cup {"x"}

Forms ==
    {Form("Electronic", i, "tv", p, q, "acme", w, "", "", "") :
        i \in Ids, p \in {"3", "abc"}, q \in QtyTexts, w \in {"1", "one"}} \cup
    {Form("FOOD", i, "rice", p, q, "", "", e, "", "") :
        i \in Ids, p \in {"2", "abc"}, q \in QtyTexts, e \in ExpiryStrings} \cup
    {Form("Apparel", i, "shirt", p, q, "", "", "", "M", "wool") :
        i \in Ids, p \in {"3"}, q \in QtyTexts} \cup
    {Form("toy", i, "ball", p, q, "", "", "", "", "") :
        i \in Ids, p \in {"3", "abc"}, q \in {"1", "x"}}

SearchTerms == {"", "RICE", "tv"}

Outcome(its, f, e, msg) == [items |-> its, file |-> f, err |-> e, out |-> msg]

\* the branch `option == "1"`: the prompts in order, then add_item
option1(its, f, form) ==
    LET type_ == lower(form.type) IN
    IF ~float_ok(form.price) THEN Outcome(its, f, BadNumber, ErrorPrinted)
    ELSE IF ~int_ok(form.qty) THEN Outcome(its, f, BadNumber, ErrorPrinted)
    ELSE IF type_ = "electronic" /\ ~int_ok(form.warranty)
        THEN Outcome(its, f, BadNumber, ErrorPrinted)
    ELSE IF type_ \notin {"electronic", "food", "apparel"}
        THEN Outcome(its, f, NoError, "Invalid type.")
    ELSE LET item ==
                IF type_ = "electronic" THEN
                    Electronic(form.id, form.name, float(form.price), int(form.qty),
                               form.brand, int(form.warranty))
                ELSE IF type_ = "food" THEN
                    Food(form.id, form.name, float(form.price), int(form.qty), form.expiry)
                ELSE
                    Apparel(form.id, form.name, float(form.price), int(form.qty),
                            form.size, form.fabric)
             r == add_item(its, f, item)
         IN  IF r.err # NoError THEN Outcome(r.items, r.file, r.err, ErrorPrinted)
             ELSE Outcome(r.items, r.file, NoError, "Item added and saved.")

\* the branch `option == "2"`
option2(its, f, id_, qtyText) ==
    IF ~int_ok(qtyText) THEN Outcome(its, f, BadNumber, ErrorPrinted)
    ELSE LET r == sell_item(its, f, id_, int(qtyText)) IN
         IF r.err # NoError THEN Outcome(r.items, r.file, r.err, ErrorPrinted)
         ELSE Outcome(r.items, r.file, NoError, "Item sold and inventory updated.")

\* the branch `option == "3"`: list_all builds every description first
option3(its, f) ==
    IF \E i \in 1..Len(its) : describe_raises(its[i])
    THEN Outcome(its, f, BadDate, ErrorPrinted)
    ELSE Outcome(its, f, NoError, "items listed")

\* the branch `option == "4"`: search_by_name describes the matching items
option4(its, f, term) ==
    IF \E i \in 1..Len(its) : contains(lower(its[i].name), lower(term)) /\ describe_raises(its[i])
    THEN Outcome(its, f, BadDate, ErrorPrinted)
    ELSE Outcome(its, f, NoError, "matches listed")

\* the branch `option == "5"`
option5(its, f, now) ==
    LET r == remove_expired(its, f, now) IN
    IF r.err # NoError THEN Outcome(r.items, r.file, r.err, ErrorPrinted)
    ELSE Outcome(r.items, r.file, NoError, "Expired food removed.")

\* one pass of the `while True` loop that ran a command to outcome o: the
\* except clause prints the error and the loop goes on
Handled(o) ==
    /\ pc = "ready"
    /\ items' = o.items
    /\ file' = o.file
    /\ err' = o.err
    /\ out' = o.out
    /\ pc' = IF o.err = NoError \/ catches(o.err) THEN "ready" ELSE "failed"

\* inv = Inventory(), before the loop and outside its try
MainStart ==
    /\ pc = "new"
    /\ LET r == load_from_file(<<>>, file) IN
        /\ items' = r.items
        /\ err' = r.err
        /\ pc' = IF r.err = NoError THEN "ready" ELSE "failed"
    /\ call' = Call("Inventory", "", 0, 0)
    /\ UNCHANGED <<file, out>>

Option1(form) ==
    /\ LET o == option1(items, file, form) IN
        /\ \A i \in 1..Len(o.items) : o.items[i].quantity \in Quantities
        /\ Handled(o)
    /\ call' = Call("1", form.id, 0, 0)

Option2(id_, qtyText) ==
    /\ LET o == option2(items, file, id_, qtyText) IN
        /\ \A i \in 1..Len(o.items) : o.items[i].quantity \in Quantities
        /\ Handled(o)
    /\ call' = Call("2", id_, IF int_ok(qtyText) THEN int(qtyText) ELSE 0, 0)

Option3 ==
    /\ Handled(option3(items, file))
    /\ call' = Call("3", "", 0, 0)

Option4(term) ==
    /\ Handled(option4(items, file, term))
    /\ call' = Call("4", term, 0, 0)

Option5(now) ==
    /\ Handled(option5(items, file, now))
    /\ call' = Call("5", "", 0, now)

\* the branch `option == "6"`: total_value reads the items and prints
Option6 ==
    /\ Handled(Outcome(items, file, NoError, "Total stock value"))
    /\ call' = Call("6", "", 0, 0)

\* the branch `option == "0"`: break
Option0 ==
    /\ pc = "ready"
    /\ pc' = "done"
    /\ out' = "Goodbye!"
    /\ err' = NoError
    /\ call' = Call("0", "", 0, 0)
    /\ UNCHANGED <<items, file>>

\* any other text at the menu prompt
OptionOther ==
    /\ Handled(Outcome(items, file, NoError, "Invalid choice."))
    /\ call' = Call("other", "", 0, 0)

MainNext ==
    \/ MainStart
    \/ \E form \in Forms : Option1(form)
    \/ \E id_ \in Ids, qtyText \in AmountTexts : Option2(id_, qtyText)
    \/ Option3
    \/ \E term \in SearchTerms : Option4(term)
    \/ \E now \in Days : Option5(now)
    \/ Option6
    \/ Option0
    \/ OptionOther

MainSpec == Init /\ [][MainNext]_vars

---------------------------------------------------------------------------
(* Properties of the session, checked under MainSpec *)

\* C10: an error raised by a command (insufficient stock, duplicate id, a
\* non-numeric price, quantity or warranty) is caught by the loop and
\* reported, the session stays at the menu prompt, and the session ends only
\* by option 0.
C10_ErrorsCaughtSessionContinues ==
    [][/\ (pc = "ready" /\ err' # NoError) => (pc' = "ready" /\ out' = ErrorPrinted)
       /\ (pc' = "done" /\ pc # "done") => (pc = "ready" /\ call'.op = "0")
       /\ (pc = "ready" /\ pc' # "ready") => call'.op = "0"]_vars

\* a sale of more than the stock was reported and the menu is back
C10_Witness ==
    /\ call.op = "2"
    /\ err = InsufficientStock
    /\ out = ErrorPrinted
    /\ pc = "ready"

====
